---- MODULE Spec2Model ----
(***************************************************************************)
(* Model of the HZ-ANA measurement data automation tool                    *)
(* (measurement_data_processor.py, config.py).                             *)
(*                                                                         *)
(* Strings the program inspects (file paths, extensions, clipboard text)   *)
(* are sequences of one-character strings, so that suffix extraction,      *)
(* lower-casing and separator replacement are computed, not assumed.       *)
(***************************************************************************)
EXTENDS Integers, Sequences, FiniteSets, TLC

\* ------------------------------------------------------------------ bounds
\* Largest ACTIVATION_RETRY_COUNT explored by SpecActivate.
MaxRetry == 2
\* Largest number of directories handed to collect_target_files.
MaxDirs == 2

\* ----------------------------------------------------- program constants
\* config.py WINDOW_SETTINGS["ACTIVATION_RETRY_COUNT"]
ACTIVATION_RETRY_COUNT == 2
\* config.py GUI_OPERATIONS
EXPORT_TAB_COUNT == 6
EXPORT_SELECTION_COUNT == 3
EXPORT_BUTTON_TAB_COUNT == 10

\* ---------------------------------------------------------------- strings
UpperChars == <<"A","B","C","D","E","F","G","H","I","J","K","L","M",
                "N","O","P","Q","R","S","T","U","V","W","X","Y","Z">>
LowerChars == <<"a","b","c","d","e","f","g","h","i","j","k","l","m",
                "n","o","p","q","r","s","t","u","v","w","x","y","z">>

\* str.lower() on one character
LowerChar(c) ==
    IF \E i \in 1..Len(UpperChars) : UpperChars[i] = c
    THEN LowerChars[CHOOSE i \in 1..Len(UpperChars) : UpperChars[i] = c]
    ELSE c

\* str.lower()
Lower(s) == [i \in 1..Len(s) |-> LowerChar(s[i])]

\* str.rfind(c): the last index of c in s, 0 when absent (1-based)
RFind(s, c) ==
    IF \E i \in 1..Len(s) : s[i] = c
    THEN CHOOSE i \in 1..Len(s) : s[i] = c /\ \A j \in (i+1)..Len(s) : s[j] # c
    ELSE 0

\* pathlib: the final path component
PathName(p) == SubSeq(p, RFind(p, "/") + 1, Len(p))

\* pathlib PurePath.suffix: from the last dot of the name, unless the dot is
\* the first or the last character of the name
Suffix(p) ==
    LET name == PathName(p)
        i    == RFind(name, ".")
    IN IF 1 < i /\ i < Len(name) THEN SubSeq(name, i, Len(name)) ELSE <<>>

\* str.replace("/", "\\")
WindowsPath(p) == [i \in 1..Len(p) |-> IF p[i] = "/" THEN "\\" ELSE p[i]]

\* x in list
InList(x, l) == \E i \in 1..Len(l) : l[i] = x

\* ------------------------------------------------------------ file system
ExtMdp == <<".", "m", "d", "p">>
ExtCsv == <<".", "c", "s", "v">>
ExtTxt == <<".", "t", "x", "t">>

FileA == <<"d", "/", "a">> \o ExtMdp
FileB == <<"d", "/", "B", ".", "M", "D", "P">>
FileC == <<"d", "/", "c">> \o ExtCsv
FileE == <<"d", "/", "e">> \o ExtTxt
\* a sub-directory whose name carries an allowed suffix
SubDir == <<"d", "/", "s">> \o ExtMdp

\* The files the operator can pick in the chooser
FileUniverse == {FileA, FileB, FileC, FileE}

\* What one askopenfilenames call can return: one or two distinct files
Selections ==
    {<<f>> : f \in FileUniverse}
    \cup ({<<f, g>> : f \in FileUniverse, g \in FileUniverse}
              \ {<<f, f>> : f \in FileUniverse})

\* Configured allow-lists explored (config.py ships [".mdp"])
ExtLists == {<<ExtMdp>>, <<ExtTxt, ExtCsv>>, <<>>}

\* Directories collect_target_files can be given: exists, entries in
\* iterdir order (path, is_file), and whether iterdir raises at the end
DirFull    == [exists |-> TRUE,  raises |-> FALSE,
               entries |-> <<[path |-> FileA, is_file |-> TRUE],
                             [path |-> SubDir, is_file |-> FALSE],
                             [path |-> FileC, is_file |-> TRUE],
                             [path |-> FileB, is_file |-> TRUE]>>]
DirTxt     == [exists |-> TRUE,  raises |-> FALSE,
               entries |-> <<[path |-> FileE, is_file |-> TRUE]>>]
DirMissing == [exists |-> FALSE, raises |-> FALSE, entries |-> <<>>]
DirBroken  == [exists |-> TRUE,  raises |-> TRUE,
               entries |-> <<[path |-> FileA, is_file |-> TRUE]>>]
DirUniverse == {DirFull, DirTxt, DirMissing, DirBroken}

RECURSIVE SeqsUpTo(_, _)
SeqsUpTo(S, n) ==
    IF n = 0 THEN {<<>>}
    ELSE LET shorter == SeqsUpTo(S, n - 1)
         IN shorter \cup {Append(s, x) : s \in shorter, x \in S}

\* ------------------------------------------------------------------ state
VARIABLES
    cfg,              \* the configuration and import-time globals, read-only
    pc,               \* position of the single thread of control
    events,           \* kinds of events of run so far: dialogs of run itself,
                      \* activation calls, key events
    present,          \* result of check_hz_ana_window_exists: "unknown", "yes", "no"
    scan_env,         \* the processes and windows a presence check that is
                      \* run by itself meets, and the sources it consulted
    files,            \* get_target_files_directly: local list `files`
    all_files,        \* collect_target_files: its returned list
    target_files,     \* self.target_files
    idx,              \* run: loop counter i (0 before the loop)
    successful_count, \* run: successful_count
    failed_files,     \* run: failed_files
    reported,         \* the completion report shown, <<>> while none is
    processed,        \* files handed to process_single_file, in order
    results,          \* return values of process_single_file, in order
    intervals,        \* run: inter-file sleeps (line 750) of the loop so far
    stageLog,         \* stages invoked for the current file, in order
    stageRets,        \* their return values, in order
    lastCall,         \* the most recent stage call of the current file: name,
                      \* result, kinds of effects (with the alert that follows)
    keys,             \* key events sent by the most recent stage call
                      \* (stageLog, stageRets, lastCall and keys describe the
                      \* process_single_file call in progress or just returned)
    clipboard,        \* content of the system clipboard
    act               \* the activation call in progress or just returned to
                      \* its caller

selVars   == <<files, all_files, target_files>>
loopVars  == <<idx, successful_count, failed_files, reported, processed, results,
               intervals>>
stageVars == <<stageLog, stageRets, lastCall, keys>>
vars == <<cfg, pc, events, present, scan_env, selVars, loopVars, stageVars,
          clipboard, act>>

\* ---------------------------------------------------------- configuration
\* MAX_FILES_PER_SESSION values explored; 0 stands for None (both falsy)
CapValues == {0, 1, 2}

Config(dry, avail, first, retries, exts, cap) ==
    [DRY_RUN |-> dry, PYWIN32_AVAILABLE |-> avail, USE_PYWIN32_FIRST |-> first,
     ACTIVATION_RETRY_COUNT |-> retries, TARGET_EXTENSIONS |-> exts,
     MAX_FILES_PER_SESSION |-> cap,
     EXPORT_TAB_COUNT |-> EXPORT_TAB_COUNT,
     EXPORT_SELECTION_COUNT |-> EXPORT_SELECTION_COUNT,
     EXPORT_BUTTON_TAB_COUNT |-> EXPORT_BUTTON_TAB_COUNT]

\* config.py as shipped, with the dry-run switch and the outcome of the
\* pywin32 import left open
ConfigsRun ==
    {Config(dry, avail, TRUE, ACTIVATION_RETRY_COUNT, <<ExtMdp>>, 0) :
        dry \in BOOLEAN, avail \in BOOLEAN}

\* every allow-list and cap, for the selection functions
ConfigsSelect ==
    {Config(FALSE, TRUE, TRUE, ACTIVATION_RETRY_COUNT, exts, cap) :
        exts \in ExtLists, cap \in CapValues}

\* every retry count and backend setting, for the activation call
ConfigsActivate ==
    {Config(dry, avail, first, retries, <<ExtMdp>>, 0) :
        dry \in BOOLEAN, avail \in BOOLEAN, first \in BOOLEAN,
        retries \in 0..MaxRetry}

\* clipboard contents the operator may have left before the run
ClipContents == {<<>>, <<"x">>}

NoCall == [name |-> "none", ret |-> TRUE, fx |-> {}]
NoScan == [procs |-> <<>>, iter_raises |-> FALSE, window |-> FALSE,
           query_raises |-> FALSE, calls |-> <<>>]
NoAct  == [site |-> "none", attempt |-> 0, log |-> <<>>, ret |-> FALSE,
           oswin |-> FALSE, sleeps |-> <<>>,
           \* filled in by the pywin32 backend when it is run by itself
           env |-> "none", hwnd |-> 0, calls |-> <<>>,
           \* filled in when the attempts are traced: the handle the target
           \* window has at each attempt so far (0: no window)
           seen |-> <<>>]

\* the state right after MeasurementDataProcessor.__init__
InitCommon ==
    /\ events = {}
    /\ present = "unknown"
    /\ scan_env = NoScan
    /\ files = <<>>
    /\ all_files = <<>>
    /\ target_files = <<>>
    /\ idx = 0
    /\ successful_count = 0
    /\ failed_files = <<>>
    /\ reported = <<>>
    /\ processed = <<>>
    /\ results = <<>>
    /\ intervals = 0
    /\ stageLog = <<>>
    /\ stageRets = <<>>
    /\ lastCall = NoCall
    /\ keys = <<>>
    /\ act = NoAct

\* ------------------------------------------------- file selection (direct)
\* get_target_files_directly: TARGET_EXTENSIONS plus ".csv"
DirectTargetExtensions(exts) ==
    IF InList(ExtCsv, exts) THEN exts ELSE Append(exts, ExtCsv)

\* a check that lets every path with a suffix through
DirectAcceptsAnySuffix(path, target_extensions) ==
    Suffix(path) # <<>>

\* the extension check of one selected path
DirectAccepts(path, target_extensions) ==
    InList(Lower(Suffix(path)), target_extensions)

\* the for loop over one askopenfilenames result
RECURSIVE AddSelected(_, _, _)
AddSelected(fs, selected, target_extensions) ==
    IF selected = <<>> THEN fs
    ELSE LET file_path == Head(selected)
             next == IF ~DirectAccepts(file_path, target_extensions) THEN fs
                     ELSE IF ~InList(file_path, fs) THEN Append(fs, file_path)
                     ELSE fs
         IN AddSelected(next, Tail(selected), target_extensions)

\* get_target_files_directly up to the first dialog
ChooserOpen ==
    /\ pc = "select"
    /\ files' = <<>>
    /\ events' = events \cup {"chooser_info"}
    /\ pc' = "choosing"
    /\ UNCHANGED <<cfg, scan_env, present, all_files, target_files, loopVars, stageVars,
                   clipboard, act>>

\* one askopenfilenames round that returns files
ChooserRound ==
    /\ pc = "choosing"
    /\ \E selected \in Selections :
        files' = AddSelected(files, selected,
                             DirectTargetExtensions(cfg.TARGET_EXTENSIONS))
    /\ events' = events \cup {"chooser"}
    /\ UNCHANGED <<cfg, scan_env, pc, present, all_files, target_files, loopVars,
                   stageVars, clipboard, act>>

\* askopenfilenames returns nothing: the loop ends and the list is returned
ChooserCancel ==
    /\ pc = "choosing"
    /\ events' = events \cup {"chooser"}
    /\ pc' = "selected"
    /\ UNCHANGED <<cfg, scan_env, present, selVars, loopVars, stageVars, clipboard, act>>

\* ------------------------------------------- file selection (directories)
\* the files of one directory that pass the extension check, in iterdir order
RECURSIVE FilesInDir(_, _)
FilesInDir(entries, target_extensions) ==
    IF entries = <<>> THEN <<>>
    ELSE LET e == Head(entries)
             rest == FilesInDir(Tail(entries), target_extensions)
         IN IF e.is_file /\ InList(Lower(Suffix(e.path)), target_extensions)
            THEN <<e.path>> \o rest
            ELSE rest

\* the loop over the directories; a directory that raises adds nothing
RECURSIVE ScanDirs(_, _)
ScanDirs(directories, target_extensions) ==
    IF directories = <<>> THEN <<>>
    ELSE LET d == Head(directories)
             found == IF ~d.exists \/ d.raises THEN <<>>
                      ELSE FilesInDir(d.entries, target_extensions)
         IN found \o ScanDirs(Tail(directories), target_extensions)

collect_target_files(directories, target_extensions, max_files) ==
    LET found == ScanDirs(directories, target_extensions)
    IN IF max_files # 0 /\ Len(found) > max_files
       THEN SubSeq(found, 1, max_files)
       ELSE found

CollectTargetFiles ==
    /\ pc = "scan"
    /\ \E directories \in SeqsUpTo(DirUniverse, MaxDirs) :
        all_files' = collect_target_files(directories, cfg.TARGET_EXTENSIONS,
                                          cfg.MAX_FILES_PER_SESSION)
    /\ pc' = "scanned"
    /\ UNCHANGED <<cfg, scan_env, events, present, files, target_files, loopVars,
                   stageVars, clipboard, act>>

\* ------------------------------------- specification: selection functions
InitSelect ==
    /\ cfg \in ConfigsSelect
    /\ pc \in {"select", "scan"}
    /\ clipboard = <<>>
    /\ InitCommon

NextSelect == ChooserOpen \/ ChooserRound \/ ChooserCancel \/ CollectTargetFiles

SpecSelect == InitSelect /\ [][NextSelect]_vars

\* the set of elements of a list
Range(l) == {l[i] : i \in 1..Len(l)}

\* C7 (as stated): no file whose (lower-cased) suffix is outside the configured
\* allow-set enters the list of files to process, from either source.
ExtensionFilterAsStated ==
    \A f \in Range(files) \cup Range(all_files) :
        Lower(Suffix(f)) \in Range(cfg.TARGET_EXTENSIONS)

\* C7 (amended): a directory scan adds only files whose lower-cased suffix is
\* in the configured allow-set; direct multi-select adds only files whose
\* lower-cased suffix is in the allow-set or is ".csv".
ExtensionFilterAmended ==
    /\ \A f \in Range(all_files) :
          Lower(Suffix(f)) \in Range(cfg.TARGET_EXTENSIONS)
    /\ \A f \in Range(files) :
          Lower(Suffix(f)) \in Range(cfg.TARGET_EXTENSIONS) \cup {ExtCsv}

\* C7 witness: with the allow-list [".mdp"], the direct selection has ended
\* holding the upper-case ".MDP" file and the ".csv" file
ExtensionFilterWitness ==
    /\ pc = "selected"
    /\ cfg.TARGET_EXTENSIONS = <<ExtMdp>>
    /\ files = <<FileB, FileC>>

\* ---------------------------------------------------------- presence check
\* Largest number of processes psutil.process_iter yields in the model
MaxProcs == 2

\* what inspecting one process gives
ProcKinds == {"name_match", "cmdline_match", "no_match", "inspect_error"}

\* a scan that gives up at the first process it cannot inspect
RECURSIVE ProcessScanStopsOnError(_)
ProcessScanStopsOnError(procs) ==
    IF procs = <<>> THEN FALSE
    ELSE IF Head(procs) \in {"name_match", "cmdline_match"} THEN TRUE
    ELSE IF Head(procs) = "inspect_error" THEN FALSE
    ELSE ProcessScanStopsOnError(Tail(procs))

\* the for loop over psutil.process_iter: an inspection error is skipped
RECURSIVE ProcessScan(_)
ProcessScan(procs) ==
    IF procs = <<>> THEN FALSE
    ELSE IF Head(procs) \in {"name_match", "cmdline_match"} THEN TRUE
    ELSE ProcessScan(Tail(procs))

\* outcomes of pyautogui.getWindowsWithTitle in the presence check
WindowQueries == {"found", "none", "raises"}

\* check_hz_ana_window_exists; iter_raises: process_iter itself raises
check_hz_ana_window_exists(procs, iter_raises, window_query) ==
    IF iter_raises THEN FALSE
    ELSE IF ProcessScan(procs) THEN TRUE
    ELSE window_query = "found"

\* the sources check_hz_ana_window_exists consults, in order: the window
\* query of line 153 is reached only when the scan ended without a match
PresenceCalls(procs, iter_raises) ==
    <<"process_iter">>
    \o (IF ~iter_raises /\ ~ProcessScan(procs)
        THEN <<"getWindowsWithTitle">> ELSE <<>>)

\* what getWindowsWithTitle gives when a matching window exists or not
WindowQuery(window, query_raises) ==
    IF query_raises THEN "raises" ELSE IF window THEN "found" ELSE "none"

\* one call of check_hz_ana_window_exists by itself
CheckPresence ==
    /\ pc = "presence"
    /\ \E procs \in SeqsUpTo(ProcKinds, MaxProcs), iter_raises \in BOOLEAN,
          window \in BOOLEAN, query_raises \in BOOLEAN :
        /\ present' = IF check_hz_ana_window_exists(
                              procs, iter_raises,
                              WindowQuery(window, query_raises))
                       THEN "yes" ELSE "no"
        /\ scan_env' = [procs |-> procs, iter_raises |-> iter_raises,
                        window |-> window, query_raises |-> query_raises,
                        calls |-> PresenceCalls(procs, iter_raises)]
    /\ pc' = "presence_done"
    /\ UNCHANGED <<cfg, events, selVars, loopVars, stageVars, clipboard, act>>

\* ------------------------------ specification: the presence check by itself
InitPresence ==
    /\ cfg \in ConfigsRun
    /\ pc = "presence"
    /\ clipboard = <<>>
    /\ InitCommon

SpecPresence == InitPresence /\ [][CheckPresence]_vars

\* some process of the scan matches by name or by command line
SomeProcessMatches ==
    \E i \in 1..Len(scan_env.procs) :
        scan_env.procs[i] \in {"name_match", "cmdline_match"}

\* C22 (as stated): the check returns true exactly when some process matches
\* or some window matches by title; windows are queried only when no process
\* matched.
PresenceIffMatch ==
    pc = "presence_done" =>
        /\ present = "yes" <=> (SomeProcessMatches \/ scan_env.window)
        /\ InList("getWindowsWithTitle", scan_env.calls) => ~SomeProcessMatches

\* C22 (amended): the processes are scanned first and the windows are queried
\* exactly when the scan ended without a match; as long as the process
\* enumeration itself does not fail, the check returns true exactly when some
\* process matches, errors on single processes being skipped, or the window
\* query succeeds and finds a window; when the enumeration fails the check
\* returns false without a window query.
PresenceIffMatchNoFailure ==
    pc = "presence_done" =>
        /\ scan_env.calls[1] = "process_iter"
        /\ InList("getWindowsWithTitle", scan_env.calls) <=>
              (~scan_env.iter_raises /\ ~SomeProcessMatches)
        /\ ~scan_env.iter_raises =>
              (present = "yes" <=>
                  \/ SomeProcessMatches
                  \/ (scan_env.window /\ ~scan_env.query_raises))
        /\ scan_env.iter_raises => present = "no"

\* C22 witness: the first process could not be inspected, the second matches
\* by command line; the check has returned true without a window query
PresenceWitness ==
    /\ pc = "presence_done"
    /\ scan_env.procs = <<"inspect_error", "cmdline_match">>
    /\ ~scan_env.iter_raises
    /\ present = "yes"
    /\ scan_env.calls = <<"process_iter">>

\* run with the target reported absent: an alert and return in a real run only
PresenceGateNeverHalts(exists, dry_run) == "continue"

\* a gate that halts on an absent target in dry-run too
PresenceGateIgnoresDryRun(exists, dry_run) ==
    IF ~exists THEN "halt" ELSE "continue"

\* run, lines 674-684: the gate on the presence check
PresenceGate(exists, dry_run) ==
    IF ~exists /\ ~dry_run THEN "halt" ELSE "continue"

RunCheckPresence ==
    /\ pc = "check"
    /\ \E procs \in SeqsUpTo(ProcKinds, MaxProcs), iter_raises \in BOOLEAN,
          window_query \in WindowQueries :
        LET exists == check_hz_ana_window_exists(procs, iter_raises, window_query)
            halt == PresenceGate(exists, cfg.DRY_RUN) = "halt"
        IN /\ present' = IF exists THEN "yes" ELSE "no"
           /\ events' = events \cup {"presence_check"}
                  \cup (IF halt THEN {"error_alert"} ELSE {})
           /\ pc' = IF halt THEN "done" ELSE "select"
    /\ UNCHANGED <<cfg, scan_env, selVars, loopVars, stageVars, clipboard, act>>

\* ------------------------------------------------- selection, confirmation
\* run, lines 688-690
RunSelected ==
    /\ pc = "selected"
    /\ target_files' = files
    /\ pc' = IF files = <<>> THEN "done" ELSE "confirm"
    /\ UNCHANGED <<cfg, scan_env, events, present, files, all_files, loopVars, stageVars,
                   clipboard, act>>

\* a prompt whose answer is not looked at
RunConfirmIgnoresAnswer ==
    /\ pc = "confirm"
    /\ \E result \in BOOLEAN :
        events' = events \cup {"confirm"}
            \cup (IF result THEN {"accepted"} ELSE {})
    /\ pc' = "grace"
    /\ UNCHANGED <<cfg, scan_env, present, selVars, loopVars, stageVars, clipboard, act>>

\* run, lines 707-721: the yes/no prompt
RunConfirm ==
    /\ pc = "confirm"
    /\ \E result \in BOOLEAN :
        /\ events' = events \cup {"confirm"}
               \cup (IF result THEN {"accepted"} ELSE {})
        /\ pc' = IF result THEN "grace" ELSE "done"
    /\ UNCHANGED <<cfg, scan_env, present, selVars, loopVars, stageVars, clipboard, act>>

\* run, line 722: time.sleep(3), then the call of line 726
RunGrace ==
    /\ pc = "grace"
    /\ pc' = "activate"
    /\ act' = [NoAct EXCEPT !.site = "run"]
    /\ UNCHANGED <<cfg, scan_env, events, present, selVars, loopVars, stageVars, clipboard>>

\* ----------------------------------------------------------------- activation
\* window handles the OS may hand out; 0 stands for "no window"
Handles == {1, 2}

\* what the OS does during one use of the pywin32 backend: the lookup
\* raises, finds nothing, or finds window hwnd; then the first call that
\* raises out of _activate_window_with_pywin32 (if any), whether the window is
\* minimized, whether SetForegroundWindow raises, and the foreground window
\* read back. Fields that the calls made never read are left at a default.
PrimaryEnv(f, h, i, r, s, g) ==
    [find |-> f, hwnd |-> h, iconic |-> i, raise_at |-> r,
     setfg_raises |-> s, fg |-> g]

PrimaryEnvs ==
    {PrimaryEnv(f, 0, FALSE, "none", FALSE, 0) : f \in {"raises", "none"}}
    \cup {PrimaryEnv("found", h, FALSE, "IsIconic", FALSE, 0) : h \in Handles}
    \cup {PrimaryEnv("found", h, i, "ShowWindow", FALSE, 0) :
            h \in Handles, i \in BOOLEAN}
    \cup {PrimaryEnv("found", h, i, "GetForegroundWindow", s, 0) :
            h \in Handles, i \in BOOLEAN, s \in BOOLEAN}
    \cup {PrimaryEnv("found", h, i, "none", s, g) :
            h \in Handles, i \in BOOLEAN, s \in BOOLEAN, g \in Handles \cup {0}}

\* what happens during one use of the pyautogui backend
FallbackEnvs == {"query_raises", "no_window", "activate_raises", "ok"}

\* a lookup that hands out the handle kept from an earlier attempt
find_window_by_title_cached(avail, e) ==
    IF act.seen # <<>> /\ act.seen[Len(act.seen)] # 0
    THEN [hwnd |-> act.seen[Len(act.seen)], calls |-> <<>>]
    ELSE IF ~avail THEN [hwnd |-> 0, calls |-> <<>>]
    ELSE [hwnd  |-> IF e.find = "found" THEN e.hwnd ELSE 0,
          calls |-> <<<<"EnumWindows", 0>>>>]

\* _find_window_by_title: the first visible matching window, 0 for None
find_window_by_title(avail, e) ==
    IF ~avail THEN [hwnd |-> 0, calls |-> <<>>]
    ELSE [hwnd  |-> IF e.find = "found" THEN e.hwnd ELSE 0,
          calls |-> <<<<"EnumWindows", 0>>>>]

\* _activate_window_with_pywin32: a failing SetForegroundWindow is swallowed
\* (the handler's inner try holds only `pass`); success is read back from
\* GetForegroundWindow
activate_window_with_pywin32(avail, hwnd, e) ==
    IF ~avail THEN [success |-> FALSE, calls |-> <<>>]
    ELSE IF e.raise_at = "IsIconic"
    THEN [success |-> FALSE, calls |-> <<<<"IsIconic", hwnd>>>>]
    ELSE LET shown == <<<<"IsIconic", hwnd>>>>
                      \o (IF e.iconic THEN <<<<"ShowWindow.SW_RESTORE", hwnd>>>>
                          ELSE <<>>)
                      \o <<<<"ShowWindow.SW_SHOW", hwnd>>>>
         IN IF e.raise_at = "ShowWindow"
            THEN [success |-> FALSE, calls |-> shown]
            ELSE LET asked == shown \o <<<<"SetForegroundWindow", hwnd>>,
                                         <<"GetForegroundWindow", 0>>>>
                 IN IF e.raise_at = "GetForegroundWindow"
                    THEN [success |-> FALSE, calls |-> asked]
                    ELSE [success |-> e.fg = hwnd, calls |-> asked]

\* lines 441-452: the pywin32 path of one attempt
PrimaryBackend(c, e) ==
    IF ~(c.PYWIN32_AVAILABLE /\ c.USE_PYWIN32_FIRST)
    THEN [result |-> "off", calls |-> <<>>]
    ELSE LET found == find_window_by_title(c.PYWIN32_AVAILABLE, e)
         IN IF found.hwnd = 0
            THEN [result |-> "notfound", calls |-> found.calls]
            ELSE LET a == activate_window_with_pywin32(c.PYWIN32_AVAILABLE,
                                                       found.hwnd, e)
                 IN [result |-> IF a.success THEN "ok" ELSE "fail",
                     calls  |-> found.calls \o a.calls]

\* lines 454-473: the pyautogui path of one attempt
FallbackBackend(f) ==
    CASE f = "query_raises"    -> [result |-> "fail",
                                   calls |-> <<<<"getWindowsWithTitle", 0>>>>]
      [] f = "no_window"       -> [result |-> "fail",
                                   calls |-> <<<<"getWindowsWithTitle", 0>>>>]
      [] f = "activate_raises" -> [result |-> "fail",
                                   calls |-> <<<<"getWindowsWithTitle", 0>>,
                                               <<"activate", 0>>>>]
      [] OTHER                 -> [result |-> "ok",
                                   calls |-> <<<<"getWindowsWithTitle", 0>>,
                                               <<"activate", 0>>>>]

\* a loop over range(max_retries) instead of range(max_retries + 1)
ActivationLoopOneShort(attempt, max_retries, success) ==
    IF success THEN "return_true"
    ELSE IF attempt + 1 < max_retries THEN "retry"
    ELSE "return_false"

\* activate_hz_ana_window, lines 436-477: what follows attempt number `attempt`
\* (counted from 0) of the loop over range(max_retries + 1)
ActivationLoop(attempt, max_retries, success) ==
    IF success THEN "return_true"
    ELSE IF attempt < max_retries THEN "retry"
    ELSE "return_false"

\* a loop that sleeps the retry interval before every attempt
RetrySleepEveryAttempt(attempt) == TRUE

\* lines 437-439: whether attempt number `attempt` (counted from 0) starts
\* with time.sleep(retry_interval)
RetrySleep(attempt) == attempt > 0

\* activate_hz_ana_window up to its loop; in dry-run it returns at once
ActivateCall ==
    /\ pc = "activate"
    /\ IF cfg.DRY_RUN
       THEN /\ act' = [act EXCEPT !.ret = TRUE]
            /\ lastCall' = [name |-> "activate", ret |-> TRUE, fx |-> {}]
            /\ pc' = "activated"
       ELSE /\ act' = [act EXCEPT !.attempt = 0, !.log = <<>>, !.oswin = FALSE]
            /\ lastCall' = [name |-> "activate", ret |-> FALSE, fx |-> {}]
            /\ pc' = "activating"
    /\ keys' = <<>>
    /\ events' = events \cup {"activate"}
    /\ stageLog' = IF act.site = "file" THEN Append(stageLog, "reactivate")
                   ELSE stageLog
    /\ UNCHANGED <<cfg, scan_env, present, selVars, loopVars, stageRets, clipboard>>

\* one iteration of the retry loop: both backends, then return or go round.
\* With `trace` the OS calls of the attempt and the handle the window has
\* during it are kept in act.
AttemptStep(envs, trace) ==
    /\ pc = "activating"
    /\ \E e \in envs, f \in FallbackEnvs :
        LET p == PrimaryBackend(cfg, e)
            b == IF p.result = "ok" THEN [result |-> "notrun", calls |-> <<>>]
                 ELSE FallbackBackend(f)
            success == p.result = "ok" \/ b.result = "ok"
            oswin == act.oswin \/ p.calls \o b.calls # <<>>
            log == Append(act.log, [primary |-> p.result, fallback |-> b.result])
            sleeps == Append(act.sleeps, RetrySleep(act.attempt))
            next == ActivationLoop(act.attempt, cfg.ACTIVATION_RETRY_COUNT, success)
            calls == IF trace THEN p.calls \o b.calls ELSE act.calls
            seen == IF trace
                    THEN Append(act.seen,
                                IF e.find = "found" THEN e.hwnd ELSE 0)
                    ELSE act.seen
        IN /\ IF next = "retry"
              THEN /\ act' = [act EXCEPT !.attempt = @ + 1, !.log = log,
                                         !.oswin = oswin, !.sleeps = sleeps,
                                         !.calls = calls, !.seen = seen]
                   /\ pc' = "activating"
                   /\ UNCHANGED lastCall
              ELSE /\ act' = [act EXCEPT !.log = log, !.oswin = oswin,
                                         !.sleeps = sleeps,
                                         !.calls = calls, !.seen = seen,
                                         !.ret = (next = "return_true")]
                   /\ lastCall' = [name |-> "activate",
                                   ret |-> (next = "return_true"),
                                   fx |-> IF oswin THEN {"oswin"} ELSE {}]
                   /\ pc' = "activated"
    /\ UNCHANGED <<cfg, scan_env, events, present, selVars, loopVars, stageLog, stageRets,
                   keys, clipboard>>

ActivateAttempt == AttemptStep(PrimaryEnvs, FALSE)

\* ------------------------------------ specification: one activation call
InitActivate ==
    /\ cfg \in ConfigsActivate
    /\ pc = "activate"
    /\ clipboard = <<>>
    /\ InitCommon

NextActivate == ActivateCall \/ ActivateAttempt

SpecActivate == InitActivate /\ [][NextActivate]_vars

\* ------------------------------- specification: activation calls, traced
\* the pywin32 environments that differ in the window found and in the
\* foreground window read back
TracedEnvs ==
    {e \in PrimaryEnvs :
        ~e.iconic /\ ~e.setfg_raises /\ e.raise_at = "none"}

ActivateAttemptTraced == AttemptStep(TracedEnvs, TRUE)

\* lines 650 and 726: the caller calls activate_hz_ana_window once more
ActivateAgain ==
    /\ pc = "activated"
    /\ pc' = "activate"
    /\ act' = [NoAct EXCEPT !.site = "run"]
    /\ lastCall' = NoCall
    /\ UNCHANGED <<cfg, scan_env, events, present, selVars, loopVars, stageLog,
                   stageRets, keys, clipboard>>

NextHandles == ActivateCall \/ ActivateAttemptTraced \/ ActivateAgain

SpecHandles == InitActivate /\ [][NextHandles]_vars

\* the OS calls that take a window handle
HandleCalls ==
    {"IsIconic", "ShowWindow.SW_RESTORE", "ShowWindow.SW_SHOW",
     "SetForegroundWindow"}

\* C24: no handle is kept between attempts: an attempt that uses the pywin32
\* backend starts with a window lookup, every call that takes a handle gets
\* the handle the window has in that same attempt, and the pyautogui backend
\* activates only after a window query of its own in that attempt.
HandlesAreFresh ==
    (pc \in {"activating", "activated"} /\ act.seen # <<>>) =>
        LET calls == act.calls
            w == act.seen[Len(act.seen)]
        IN /\ (cfg.PYWIN32_AVAILABLE /\ cfg.USE_PYWIN32_FIRST) =>
                 calls[1] = <<"EnumWindows", 0>>
           /\ \A i \in 1..Len(calls) :
                 /\ calls[i][1] \in HandleCalls =>
                       /\ w # 0
                       /\ calls[i][2] = w
                       /\ \E j \in 1..(i - 1) : calls[j][1] = "EnumWindows"
                 /\ calls[i][1] = "activate" =>
                       i > 1 /\ calls[i - 1][1] = "getWindowsWithTitle"

\* C24 witness: the first attempt found window 1 and failed; the window was
\* replaced by window 2, which the second attempt found and brought to the
\* foreground
HandlesAreFreshWitness ==
    /\ pc = "activated"
    /\ act.ret
    /\ act.seen = <<1, 2>>
    /\ act.log = <<[primary |-> "fail", fallback |-> "fail"],
                   [primary |-> "ok", fallback |-> "notrun"]>>
    /\ act.calls[Len(act.calls) - 1] = <<"SetForegroundWindow", 2>>

\* an attempt in which neither backend succeeded
BothFailed(a) == a.primary # "ok" /\ a.fallback # "ok"

\* C1: a non-dry-run activation call makes at most N+1 attempts; it returns
\* false exactly when it made N+1 attempts and both backends failed in each,
\* and it returns true at the first attempt in which a backend succeeds.
ActivationAttemptsBounded ==
    LET N == cfg.ACTIVATION_RETRY_COUNT
        n == Len(act.log)
    IN ~cfg.DRY_RUN =>
        /\ n <= N + 1
        /\ pc = "activating" => n = act.attempt /\ \A i \in 1..n : BothFailed(act.log[i])
        /\ pc = "activated" =>
            /\ n >= 1
            /\ \A i \in 1..(n - 1) : BothFailed(act.log[i])
            /\ ~act.ret <=> (n = N + 1 /\ BothFailed(act.log[n]))
            /\ act.ret <=> ~BothFailed(act.log[n])

\* C1 witness: with N = 2 the call has returned false after three attempts in
\* which the pywin32 backend and the pyautogui backend both failed
ActivationExhaustedWitness ==
    /\ pc = "activated"
    /\ ~cfg.DRY_RUN
    /\ cfg.ACTIVATION_RETRY_COUNT = 2
    /\ ~act.ret
    /\ Len(act.log) = 3
    /\ \A i \in 1..3 : act.log[i] = [primary |-> "fail", fallback |-> "fail"]

\* --------------------------- specification: the pywin32 backend by itself
\* line 444: the window lookup of one attempt
FindWindowByTitle ==
    /\ pc = "find_window"
    /\ \E e \in PrimaryEnvs :
        LET found == find_window_by_title(cfg.PYWIN32_AVAILABLE, e)
        IN /\ act' = [NoAct EXCEPT !.site = "pywin32", !.env = e,
                                   !.hwnd = found.hwnd, !.calls = found.calls]
           /\ pc' = IF found.hwnd # 0 THEN "activate_window" ELSE "window_done"
    /\ UNCHANGED <<cfg, scan_env, events, present, selVars, loopVars, stageVars, clipboard>>

\* lines 445-446: the activation of the window found
ActivateWindowWithPywin32 ==
    /\ pc = "activate_window"
    /\ LET a == activate_window_with_pywin32(cfg.PYWIN32_AVAILABLE, act.hwnd,
                                             act.env)
       IN act' = [act EXCEPT !.calls = @ \o a.calls, !.ret = a.success]
    /\ pc' = "window_done"
    /\ UNCHANGED <<cfg, scan_env, events, present, selVars, loopVars, stageVars, clipboard>>

InitPrimary ==
    /\ cfg \in ConfigsRun
    /\ pc = "find_window"
    /\ clipboard = <<>>
    /\ InitCommon

NextPrimary == FindWindowByTitle \/ ActivateWindowWithPywin32

SpecPrimary == InitPrimary /\ [][NextPrimary]_vars

\* C16: whenever SetForegroundWindow fails in the pywin32 backend, the next
\* call is BringWindowToTop on the same handle, before GetForegroundWindow.
BringToTopAfterFailedForeground ==
    (act.site = "pywin32" /\ act.env.setfg_raises) =>
        \A i \in 1..Len(act.calls) :
            act.calls[i] = <<"SetForegroundWindow", act.hwnd>> =>
                /\ i < Len(act.calls)
                /\ act.calls[i + 1] = <<"BringWindowToTop", act.hwnd>>

\* the number of retry-interval sleeps among the first n attempts
RetrySleeps(n) == Cardinality({i \in 1..n : act.sleeps[i]})

\* C11: within one activation call no retry-interval sleep precedes the first
\* attempt and exactly one precedes each later attempt; a call that returns
\* true at attempt k has slept k-1 times and makes no further attempt.
RetrySleepsBetweenAttempts ==
    LET n == Len(act.log)
    IN ~cfg.DRY_RUN =>
        /\ Len(act.sleeps) = n
        /\ \A i \in 1..n : act.sleeps[i] <=> i > 1
        /\ (pc = "activated" /\ act.ret) =>
              /\ RetrySleeps(n) = n - 1
              /\ ~BothFailed(act.log[n])
              /\ \A i \in 1..(n - 1) : BothFailed(act.log[i])
              /\ ~ENABLED ActivateAttempt

\* C11 witness: with three attempts allowed the pywin32 backend has failed
\* twice, the pyautogui backend has succeeded at the second attempt, and the
\* call has returned true after one sleep
RetrySleepsWitness ==
    /\ pc = "activated"
    /\ cfg.ACTIVATION_RETRY_COUNT = 2
    /\ act.ret
    /\ act.log = <<[primary |-> "fail", fallback |-> "fail"],
                   [primary |-> "fail", fallback |-> "ok"]>>
    /\ act.sleeps = <<FALSE, TRUE>>

\* ------------------------------------------------------- input synthesizer
\* the first n sent of a planned key sequence
Sent(planned, n) == SubSeq(planned, 1, n)

RECURSIVE Repeat(_, _)
Repeat(ks, n) == IF n = 0 THEN <<>> ELSE ks \o Repeat(ks, n - 1)

\* reset_display_data: Alt+D, Down, Enter
ResetKeys == <<"alt+d", "down", "enter">>
\* open_file_dialog: Alt+F, Enter
OpenDialogKeys == <<"alt+f", "enter">>
\* input_file_path_and_open, after the paste: Enter, Tab, Space
PathKeys == <<"enter", "tab", "space">>
\* an export that uses the button distance for the first run of Tab presses
\* and the format distance for the second
ExportKeysSwappedCounts(tabs, selections, button_tabs) ==
    <<"alt+f", "up", "up", "enter">>
    \o Repeat(<<"tab">>, button_tabs)
    \o Repeat(<<"space", "down">>, selections)
    \o Repeat(<<"tab">>, tabs)
    \o <<"space", "y">>

\* export_to_csv
ExportKeys(tabs, selections, button_tabs) ==
    <<"alt+f", "up", "up", "enter">>
    \o Repeat(<<"tab">>, tabs)
    \o Repeat(<<"space", "down">>, selections)
    \o Repeat(<<"tab">>, button_tabs)
    \o <<"space", "y">>

\* A stage that sends the planned keys one by one; `sent` of them go out
\* before a key call raises (all of them when none raises), as the fail-safe
\* check of pyautogui does with FailSafeException, an Exception. The
\* exception is caught and the stage returns False.
KeyStage(dry_run, planned, sent) ==
    IF dry_run THEN [ret |-> TRUE, keys |-> <<>>, fx |-> {}]
    ELSE [ret  |-> sent = Len(planned),
          keys |-> Sent(planned, sent),
          fx   |-> (IF sent > 0 THEN {"key"} ELSE {})
                   \cup (IF sent < Len(planned) THEN {"key_raised"} ELSE {})]

\* reset_display_data without its dry-run guard
reset_display_data_unguarded(dry_run, sent) == KeyStage(FALSE, ResetKeys, sent)

reset_display_data(dry_run, sent) == KeyStage(dry_run, ResetKeys, sent)

open_file_dialog(dry_run, sent) == KeyStage(dry_run, OpenDialogKeys, sent)

\* the keys export_to_csv plans under configuration c
ExportPlan(c) ==
    ExportKeys(c.EXPORT_TAB_COUNT, c.EXPORT_SELECTION_COUNT,
               c.EXPORT_BUTTON_TAB_COUNT)

\* export_to_csv without its dry-run guard
export_to_csv_unguarded(c, sent) == KeyStage(FALSE, ExportPlan(c), sent)

export_to_csv(c, sent) == KeyStage(c.DRY_RUN, ExportPlan(c), sent)

\* which clipboard and paste calls raise during one text entry
ClipEnvs == [read_raises : BOOLEAN, copy_raises : BOOLEAN,
             hotkey_raises : BOOLEAN, restore_raises : BOOLEAN]

\* _input_text_via_clipboard: save, copy, Ctrl+V, restore. A failed read
\* leaves "" as the saved content; a failing copy or Ctrl+V ends the function
\* in its outer handler, before the restore.
input_text_via_clipboard(clip, text, e) ==
    LET original_clipboard == IF e.read_raises THEN <<>> ELSE clip
    IN IF e.copy_raises
       THEN [ret |-> FALSE, clipboard |-> clip, keys |-> <<>>, fx |-> {}]
       ELSE IF e.hotkey_raises
       THEN [ret |-> FALSE, clipboard |-> text, keys |-> <<>>,
             fx |-> {"clip", "key_raised"}]
       ELSE [ret |-> TRUE,
             clipboard |-> IF e.restore_raises THEN text ELSE original_clipboard,
             keys |-> <<"ctrl+v">>, fx |-> {"clip", "key"}]

\* input_file_path_and_open
input_file_path_and_open(dry_run, file_path, clip, e, sent) ==
    IF dry_run
    THEN [ret |-> TRUE, clipboard |-> clip, keys |-> <<>>, fx |-> {}]
    ELSE LET windows_path == WindowsPath(file_path)
             t == input_text_via_clipboard(clip, windows_path, e)
         IN IF ~t.ret THEN t
            ELSE [ret |-> sent = Len(PathKeys),
                  clipboard |-> t.clipboard,
                  keys |-> t.keys \o Sent(PathKeys, sent),
                  fx |-> t.fx \cup (IF sent < Len(PathKeys)
                                    THEN {"key_raised"} ELSE {})]

\* --------------------------------------------------- process_single_file
StageOrder == <<"reset", "open_dialog", "input_path", "reactivate", "export">>

\* a sequencer that goes on to the open dialog when the reset has failed
process_single_file_no_short_circuit(stage, ret, dry_run) ==
    CASE stage = "reset"       -> "open_dialog"
      [] stage = "open_dialog" -> IF ret THEN "input_path" ELSE "return_false"
      [] stage = "input_path"  -> IF ret THEN "reactivate" ELSE "return_false"
      [] stage = "reactivate"  -> IF ~ret /\ ~dry_run THEN "alert_return_false"
                                  ELSE "export"
      [] OTHER                 -> IF ret THEN "return_true" ELSE "return_false"

\* a sequencer that goes on to the export whatever the re-activation returned
process_single_file_export_anyway(stage, ret, dry_run) ==
    CASE stage = "reset"       -> IF ret THEN "open_dialog" ELSE "return_false"
      [] stage = "open_dialog" -> IF ret THEN "input_path" ELSE "return_false"
      [] stage = "input_path"  -> IF ret THEN "reactivate" ELSE "return_false"
      [] stage = "reactivate"  -> "export"
      [] OTHER                 -> IF ret THEN "return_true" ELSE "return_false"

\* process_single_file, lines 637-662: what follows a stage's return value
process_single_file(stage, ret, dry_run) ==
    CASE stage = "reset"       -> IF ret THEN "open_dialog" ELSE "return_false"
      [] stage = "open_dialog" -> IF ret THEN "input_path" ELSE "return_false"
      [] stage = "input_path"  -> IF ret THEN "reactivate" ELSE "return_false"
      [] stage = "reactivate"  -> IF ~ret /\ ~dry_run THEN "alert_return_false"
                                  ELSE "export"
      [] OTHER                 -> IF ret THEN "return_true" ELSE "return_false"

\* the bookkeeping shared by the stage calls of process_single_file
StageReturns(stage, r) ==
    LET next == process_single_file(stage, r.ret, cfg.DRY_RUN)
    IN /\ keys' = r.keys
       /\ lastCall' = [name |-> stage, ret |-> r.ret, fx |-> r.fx]
       /\ stageLog' = Append(stageLog, stage)
       /\ stageRets' = Append(stageRets, r.ret)
       /\ events' = events \cup (r.fx \cap {"key", "key_raised"})
       /\ IF next \in {"return_true", "return_false"}
          THEN /\ pc' = "psf_returned"
               /\ results' = Append(results, next = "return_true")
               /\ UNCHANGED act
          ELSE IF next = "reactivate"
          THEN /\ pc' = "activate"
               /\ act' = [NoAct EXCEPT !.site = "file"]
               /\ UNCHANGED results
          ELSE /\ pc' = next
               /\ UNCHANGED <<results, act>>
       /\ UNCHANGED <<cfg, scan_env, present, selVars, idx, successful_count,
                      failed_files, reported, processed, intervals>>

PsfReset ==
    /\ pc = "reset"
    /\ \E sent \in 0..Len(ResetKeys) :
        StageReturns("reset", reset_display_data(cfg.DRY_RUN, sent))
    /\ UNCHANGED clipboard

PsfOpenDialog ==
    /\ pc = "open_dialog"
    /\ \E sent \in 0..Len(OpenDialogKeys) :
        StageReturns("open_dialog", open_file_dialog(cfg.DRY_RUN, sent))
    /\ UNCHANGED clipboard

PsfInputPath ==
    /\ pc = "input_path"
    /\ \E e \in ClipEnvs, sent \in 0..Len(PathKeys) :
        LET r == input_file_path_and_open(cfg.DRY_RUN, target_files[idx],
                                          clipboard, e, sent)
        IN /\ StageReturns("input_path", r)
           /\ clipboard' = r.clipboard

\* lines 650-655: the return of the re-activation
PsfReactivated ==
    /\ pc = "activated"
    /\ act.site = "file"
    /\ stageRets' = Append(stageRets, act.ret)
    /\ LET next == process_single_file("reactivate", act.ret, cfg.DRY_RUN)
       IN IF next = "alert_return_false"
          THEN /\ lastCall' = [lastCall EXCEPT !.fx = @ \cup {"error_alert"}]
               /\ results' = Append(results, FALSE)
               /\ pc' = "psf_returned"
          ELSE /\ pc' = next
               /\ UNCHANGED <<lastCall, results>>
    /\ act' = NoAct
    /\ UNCHANGED <<cfg, scan_env, events, present, selVars, idx, successful_count,
                   failed_files, reported, processed, intervals, stageLog, keys,
                   clipboard>>

PsfExport ==
    /\ pc = "export"
    /\ \E sent \in 0..Len(ExportPlan(cfg)) :
        StageReturns("export", export_to_csv(cfg, sent))
    /\ UNCHANGED clipboard

\* ------------------------------------ specification: one export_to_csv call
\* Largest EXPORT_TAB_COUNT, EXPORT_SELECTION_COUNT and
\* EXPORT_BUTTON_TAB_COUNT explored by SpecExport
MaxCount == 2

\* config.py with every combination of the three export counts
ConfigsExport ==
    {[Config(dry, TRUE, TRUE, ACTIVATION_RETRY_COUNT, <<ExtMdp>>, 0)
         EXCEPT !.EXPORT_TAB_COUNT = t, !.EXPORT_SELECTION_COUNT = n,
                !.EXPORT_BUTTON_TAB_COUNT = b] :
        dry \in BOOLEAN, t \in 0..MaxCount, n \in 0..MaxCount,
        b \in 0..MaxCount}

InitExport ==
    /\ cfg \in ConfigsExport
    /\ pc = "export"
    /\ clipboard = <<>>
    /\ InitCommon

SpecExport == InitExport /\ [][PsfExport]_vars

\* C21: for all counts T, S and B, a real export that returns true has sent
\* Alt+F, Up, Up, Enter, T times Tab, S times (Space, Down), B times Tab,
\* Space, Y, and nothing else.
ExportKeySequence ==
    (~cfg.DRY_RUN /\ lastCall.name = "export" /\ lastCall.ret) =>
        LET T == cfg.EXPORT_TAB_COUNT
            S == cfg.EXPORT_SELECTION_COUNT
            B == cfg.EXPORT_BUTTON_TAB_COUNT
        IN /\ Len(keys) = 4 + T + 2 * S + B + 2
           /\ keys[1] = "alt+f" /\ keys[2] = "up" /\ keys[3] = "up"
           /\ keys[4] = "enter"
           /\ \A i \in 1..T : keys[4 + i] = "tab"
           /\ \A j \in 1..S : /\ keys[4 + T + 2 * j - 1] = "space"
                               /\ keys[4 + T + 2 * j] = "down"
           /\ \A i \in 1..B : keys[4 + T + 2 * S + i] = "tab"
           /\ keys[Len(keys) - 1] = "space"
           /\ keys[Len(keys)] = "y"

\* C21 witness: a real export with T = 1, S = 2, B = 0 has returned true
ExportKeySequenceWitness ==
    /\ ~cfg.DRY_RUN
    /\ cfg.EXPORT_TAB_COUNT = 1
    /\ cfg.EXPORT_SELECTION_COUNT = 2
    /\ cfg.EXPORT_BUTTON_TAB_COUNT = 0
    /\ lastCall.name = "export"
    /\ lastCall.ret
    /\ Len(keys) = 11

\* ----------------------------------------------------------- run: the loop
\* a loop that walks the selection from its end
NextFileReversed(fs, done) == fs[Len(fs) - done]

\* for i, file_path in enumerate(self.target_files, 1): the file after
\* `done` iterations
NextFile(fs, done) == fs[done + 1]

\* an activation gate that lets a failed activation through
ActivationGateOpen(ret, dry_run) == "continue"

\* run, lines 726-731: the gate on the pre-loop activation
ActivationGate(ret, dry_run) ==
    IF ~ret /\ ~dry_run THEN "halt" ELSE "continue"

\* a failed file is counted as failed and as successful
RecordOutcomeDoubleCount(ok, count, failed, file_path) ==
    [successful_count |-> count + 1,
     failed_files |-> IF ok THEN failed ELSE Append(failed, file_path)]

\* a failed file is left out of the failed-file list
RecordOutcomeDropsFailure(ok, count, failed, file_path) ==
    [successful_count |-> IF ok THEN count + 1 ELSE count,
     failed_files |-> failed]

\* run, lines 741-747
RecordOutcome(ok, count, failed, file_path) ==
    IF ok
    THEN [successful_count |-> count + 1, failed_files |-> failed]
    ELSE [successful_count |-> count, failed_files |-> Append(failed, file_path)]

\* a loop that neither yields its next file nor ends
LoopStepStuck ==
    /\ pc' = "spin"
    /\ UNCHANGED <<idx, processed, stageLog, stageRets>>

\* the next iteration of the for loop starts, or the loop is over
LoopStep ==
    IF idx < Len(target_files)
    THEN /\ idx' = idx + 1
         /\ processed' = Append(processed, NextFile(target_files, idx))
         /\ stageLog' = <<>>
         /\ stageRets' = <<>>
         /\ pc' = "reset"
    ELSE /\ pc' = "report"
         /\ UNCHANGED <<idx, processed, stageLog, stageRets>>

\* run, lines 726-738: the return of the pre-loop activation
RunActivated ==
    /\ pc = "activated"
    /\ act.site = "run"
    /\ IF ActivationGate(act.ret, cfg.DRY_RUN) = "halt"
       THEN /\ events' = events \cup {"error_alert"}
            /\ pc' = "done"
            /\ UNCHANGED <<idx, processed, stageLog, stageRets,
                           successful_count, failed_files>>
       ELSE /\ successful_count' = 0
            /\ failed_files' = <<>>
            /\ LoopStep
            /\ UNCHANGED events
    /\ act' = NoAct
    /\ lastCall' = NoCall
    /\ UNCHANGED <<cfg, scan_env, present, selVars, reported, results, intervals, keys,
                   clipboard>>

\* run, lines 741-747: the outcome of process_single_file is recorded
RunRecord ==
    /\ pc = "psf_returned"
    /\ LET r == RecordOutcome(results[Len(results)], successful_count,
                              failed_files, target_files[idx])
       IN /\ successful_count' = r.successful_count
          /\ failed_files' = r.failed_files
    /\ pc' = "interval"
    /\ keys' = <<>>
    /\ lastCall' = NoCall
    /\ stageLog' = <<>>
    /\ stageRets' = <<>>
    /\ UNCHANGED <<cfg, scan_env, events, present, selVars, idx, reported, processed,
                   results, intervals, clipboard, act>>

\* a loop that sleeps between files only, not after the last one
IntervalAfterExceptLast(ok, i, total) == IF i < total THEN 1 ELSE 0

\* run, line 750: the number of time.sleep(PROCESS_INTERVAL) calls that end
\* the iteration of file i of `total`, whose processing returned `ok`
IntervalAfter(ok, i, total) == 1

\* run, line 750: the inter-file sleep, then the loop goes on
RunInterval ==
    /\ pc = "interval"
    /\ intervals' = intervals + IntervalAfter(results[Len(results)], idx,
                                            Len(target_files))
    /\ LoopStep
    /\ UNCHANGED <<cfg, scan_env, events, present, selVars, successful_count,
                   failed_files, reported, results, lastCall, keys, clipboard,
                   act>>

\* run, lines 753-766: the completion report
RunReport ==
    /\ pc = "report"
    /\ reported' = <<[success |-> successful_count,
                      failure |-> Len(failed_files),
                      failed_files |-> failed_files]>>
    /\ events' = events \cup {"report"}
    /\ pc' = "done"
    /\ UNCHANGED <<cfg, scan_env, present, selVars, idx, successful_count, failed_files,
                   processed, results, intervals, stageVars, clipboard, act>>

\* a run without the KeyboardInterrupt handler: the exception leaves run
InterruptPropagates ==
    /\ pc \notin {"done", "aborted", "propagated"}
    /\ pc' = "propagated"
    /\ UNCHANGED <<cfg, scan_env, events, present, selVars, loopVars, stageVars,
                   clipboard, act>>

\* run, lines 768-770: KeyboardInterrupt anywhere inside the try block. The
\* frames of the calls in progress are unwound and run's locals are dropped.
Interrupt ==
    /\ pc \notin {"done", "aborted"}
    /\ events' = events \cup {"abort_info"}
    /\ pc' = "aborted"
    /\ idx' = 0
    /\ successful_count' = 0
    /\ failed_files' = <<>>
    /\ intervals' = 0
    /\ files' = <<>>
    /\ stageLog' = <<>>
    /\ stageRets' = <<>>
    /\ lastCall' = NoCall
    /\ keys' = <<>>
    /\ act' = NoAct
    /\ UNCHANGED <<cfg, scan_env, present, all_files, target_files, reported, processed,
                   results, clipboard>>

\* ------------------------------------------------ specification: one run
Init ==
    /\ cfg \in ConfigsRun
    /\ pc = "check"
    /\ clipboard \in ClipContents
    /\ InitCommon

Next ==
    \/ RunCheckPresence
    \/ ChooserOpen \/ ChooserRound \/ ChooserCancel
    \/ RunSelected \/ RunConfirm \/ RunGrace
    \/ ActivateCall \/ ActivateAttempt
    \/ RunActivated
    \/ PsfReset \/ PsfOpenDialog \/ PsfInputPath \/ PsfReactivated \/ PsfExport
    \/ RunRecord \/ RunInterval \/ RunReport
    \/ Interrupt

Spec == Init /\ [][Next]_vars

\* ------------------------------- specification: one run, left to run on
\* config.py as shipped, with the dry-run switch and the retry count left open
ConfigsLive ==
    {Config(dry, TRUE, TRUE, retries, <<ExtMdp>>, 0) :
        dry \in BOOLEAN, retries \in 0..MaxRetry}

InitLive ==
    /\ cfg \in ConfigsLive
    /\ pc = "check"
    /\ clipboard = <<>>
    /\ InitCommon

\* the steps the program takes by itself once the operator has accepted the
\* confirmation; the operator's answers in the dialogs before, and an
\* interruption, may never come
Step ==
    \/ RunGrace
    \/ ActivateCall \/ ActivateAttempt
    \/ RunActivated
    \/ PsfReset \/ PsfOpenDialog \/ PsfInputPath \/ PsfReactivated \/ PsfExport
    \/ RunRecord \/ RunInterval \/ RunReport

\* every call and sleep of the single thread returns, so a step that can be
\* taken is taken
SpecLive == InitLive /\ [][Next]_vars /\ WF_vars(Step)

\* ------------------------- specification: one run with a session cap set
\* config.py with MAX_FILES_PER_SESSION set to a number instead of None
ConfigsCapped ==
    {Config(dry, TRUE, TRUE, ACTIVATION_RETRY_COUNT, <<ExtMdp>>, cap) :
        dry \in BOOLEAN, cap \in CapValues \ {0}}

InitCapped ==
    /\ cfg \in ConfigsCapped
    /\ pc = "check"
    /\ clipboard = <<>>
    /\ InitCommon

SpecCapped == InitCapped /\ [][Next]_vars

\* ------------------------------------------------------------ claims on run
StageNames == {"reset", "open_dialog", "input_path", "activate", "export"}

Last(q) == q[Len(q)]

\* how many of the first n results are successes
Successes(n) == Cardinality({i \in 1..n : results[i]})

\* the files among the first n selected whose processing returned false
RECURSIVE FailedAmong(_)
FailedAmong(n) ==
    IF n = 0 THEN <<>>
    ELSE IF results[n] THEN FailedAmong(n - 1)
    ELSE Append(FailedAmong(n - 1), target_files[n])

\* C2: in dry-run every activation, reset, open and export call returns true
\* and issues no key event, no clipboard write and no OS window call.
DryRunCallsAreNoOps ==
    cfg.DRY_RUN =>
        /\ lastCall.name \in StageNames =>
              lastCall.ret /\ lastCall.fx = {} /\ keys = <<>>
        /\ pc = "activated" => act.ret /\ ~act.oswin /\ act.log = <<>>
        /\ \A i \in 1..Len(stageRets) : stageRets[i]

\* C2 witness: a dry-run process_single_file has made all five stage calls
DryRunCallsWitness ==
    /\ cfg.DRY_RUN
    /\ pc = "psf_returned"
    /\ stageLog = StageOrder
    /\ lastCall.name = "export"

\* C3: the stages of a file run in the fixed order, none twice; a stage that
\* returns false is the last stage invoked for the file and makes
\* process_single_file return false; it returns true only after all five
\* returned true.
ShortCircuit ==
    /\ Len(stageLog) <= Len(StageOrder)
    /\ stageLog = SubSeq(StageOrder, 1, Len(stageLog))
    /\ Len(stageRets) \in {Len(stageLog), Len(stageLog) - 1}
    /\ \A i \in 1..Len(stageRets) :
          ~stageRets[i] =>
              /\ Len(stageLog) = i
              /\ pc = "psf_returned"
              /\ ~Last(results)
    /\ pc = "psf_returned" =>
          (Last(results) <=>
              /\ stageLog = StageOrder
              /\ Len(stageRets) = Len(StageOrder)
              /\ \A i \in 1..Len(stageRets) : stageRets[i])

\* C3 witness: reset has returned false and process_single_file has returned
\* false with no other stage invoked
ShortCircuitWitness ==
    /\ pc = "psf_returned"
    /\ stageLog = <<"reset">>
    /\ stageRets = <<FALSE>>
    /\ ~Last(results)

\* C4: a text-entry operation that completes leaves the clipboard as it found
\* it, whether it returns true or false.
ClipboardRoundTrip ==
    [][(pc = "input_path" /\ pc' # "aborted") => clipboard' = clipboard]_vars

\* C5: the files are handed to process_single_file in selection order, each
\* once: what has been handed over is always a prefix of the selection, and
\* the whole selection when the loop is over.
ProcessingOrder ==
    /\ Len(processed) <= Len(target_files)
    /\ processed = SubSeq(target_files, 1, Len(processed))
    /\ pc # "aborted" => Len(processed) = idx
    /\ (pc = "report" \/ reported # <<>>) => processed = target_files
    /\ \A i, j \in 1..Len(processed) : processed[i] = processed[j] => i = j

\* C5 witness: the loop is over for a selection of three files that is not in
\* alphabetical order, one of which failed
ProcessingOrderWitness ==
    /\ pc = "report"
    /\ target_files = <<FileC, FileA, FileB>>
    /\ processed = <<FileC, FileA, FileB>>
    /\ results = <<TRUE, FALSE, TRUE>>

\* C6: once the outcome of the i-th file is recorded, successful_count plus
\* the number of failed files is i, the successes being counted in the one
\* and the failures in the other; the report's two counts add up to the
\* number of selected files.
CountsAddUp ==
    /\ pc \notin {"psf_returned", "aborted"} =>
          /\ successful_count + Len(failed_files) = Len(results)
          /\ successful_count = Successes(Len(results))
    /\ pc = "psf_returned" =>
          /\ successful_count + Len(failed_files) = Len(results) - 1
          /\ successful_count = Successes(Len(results) - 1)
    /\ reported # <<>> =>
          reported[1].success + reported[1].failure = Len(target_files)

\* C6 witness: a report of one success and two failures for three files
CountsAddUpWitness ==
    /\ pc = "done"
    /\ Len(target_files) = 3
    /\ reported # <<>>
    /\ reported[1].success = 1
    /\ reported[1].failure = 2

\* C8: a failing file does not stop the batch: when the report is shown every
\* selected file has been attempted, the failed-file list holds exactly the
\* files whose processing returned false, and the success count is the number
\* of the others.
FailureIsolation ==
    /\ pc \notin {"psf_returned", "aborted"} =>
          failed_files = FailedAmong(Len(results))
    /\ reported # <<>> =>
          /\ Len(results) = Len(target_files)
          /\ reported[1].failed_files = FailedAmong(Len(target_files))
          /\ reported[1].failure = Len(target_files) - Successes(Len(target_files))
          /\ reported[1].success = Successes(Len(target_files))

\* C8 witness: file 2 of 3 failed; the report shows success 2, failure 1 and
\* exactly file 2 as failed
FailureIsolationWitness ==
    /\ pc = "done"
    /\ Len(target_files) = 3
    /\ results = <<TRUE, FALSE, TRUE>>
    /\ reported = <<[success |-> 2, failure |-> 1,
                     failed_files |-> <<target_files[2]>>]>>

\* C9: in a real run with the target application absent, run stops at the
\* presence check with an error alert and nothing else ever happens.
AbsentTargetHalts ==
    (~cfg.DRY_RUN /\ present = "no") =>
        /\ pc = "done"
        /\ events = {"presence_check", "error_alert"}
        /\ reported = <<>>
        /\ processed = <<>>
        /\ target_files = <<>>
        /\ keys = <<>>

\* C9 witness: a real run has found the target absent
AbsentTargetWitness ==
    /\ ~cfg.DRY_RUN
    /\ present = "no"
    /\ "error_alert" \in events

\* C10: a dry-run sends no key event and fails no file; once the operator has
\* confirmed, it can only end with a report of k successes and 0 failures.
DryRunAllSucceed ==
    cfg.DRY_RUN =>
        /\ "key" \notin events
        /\ keys = <<>>
        /\ failed_files = <<>>
        /\ \A i \in 1..Len(results) : results[i]
        /\ "accepted" \in events =>
              /\ "error_alert" \notin events
              /\ pc = "done" =>
                    reported = <<[success |-> Len(target_files), failure |-> 0,
                                  failed_files |-> <<>>]>>

\* C10 witness: a dry-run over three files has reported three successes
DryRunAllSucceedWitness ==
    /\ cfg.DRY_RUN
    /\ pc = "done"
    /\ Len(target_files) = 3
    /\ reported = <<[success |-> 3, failure |-> 0, failed_files |-> <<>>]>>

\* C12: an operator interruption can arrive at every point of run before its
\* end; it takes the run straight to the aborted report, after which nothing
\* more happens: no further file is processed, no completion report is
\* shown, and the exception never leaves run.
InterruptAborts ==
    /\ pc # "propagated"
    /\ pc \notin {"done", "aborted"} => ENABLED Interrupt
    /\ pc = "aborted" =>
          /\ "abort_info" \in events
          /\ "report" \notin events
          /\ reported = <<>>
          /\ ~ENABLED Next

\* C12 witness: the run was interrupted during the second of three files,
\* after key events had been sent
InterruptAbortsWitness ==
    /\ pc = "aborted"
    /\ Len(target_files) = 3
    /\ Len(processed) = 2
    /\ Len(results) = 1
    /\ "key" \in events

\* C13: with a session cap configured, the files of a run are the selection
\* cut to the cap: no more files than the cap are handed to
\* process_single_file or counted in the report.
SessionCapRespected ==
    LET cap == cfg.MAX_FILES_PER_SESSION
    IN cap # 0 =>
        /\ Len(processed) <= cap
        /\ reported # <<>> => reported[1].success + reported[1].failure <= cap

\* C14 (as stated): in dry-run the presence gate is skipped entirely: the
\* presence checker is not invoked and no error alert is shown.
DryRunSkipsPresenceCheck ==
    cfg.DRY_RUN =>
        /\ "presence_check" \notin events
        /\ present = "unknown"
        /\ "error_alert" \notin events

\* C14 (amended): in dry-run the presence checker is still invoked, but its
\* result does not gate the run: whether or not the target is found, run goes
\* on to file selection and shows no error alert.
DryRunPresenceNotGating ==
    [][(cfg.DRY_RUN /\ pc = "check" /\ pc' # "aborted") =>
          /\ "presence_check" \in events'
          /\ present' \in {"yes", "no"}
          /\ "error_alert" \notin events'
          /\ pc' = "select"]_vars

\* C14 witness: a dry-run has found the target absent and is at the selection
DryRunPresenceWitness ==
    /\ cfg.DRY_RUN
    /\ present = "no"
    /\ pc = "select"
    /\ events = {"presence_check"}

\* C15: once the operator has answered the confirmation prompt, run reaches
\* a terminal state (report shown, early exit, or aborted) whatever the
\* stages and activations return.
RunTerminates ==
    ("confirm" \in events) ~> (pc \in {"done", "aborted"})

\* C15 witness: a real run over three files has ended with its report after
\* a file failed
RunTerminatesWitness ==
    /\ ~cfg.DRY_RUN
    /\ cfg.ACTIVATION_RETRY_COUNT = MaxRetry
    /\ pc = "done"
    /\ "confirm" \in events
    /\ Len(target_files) = 3
    /\ reported # <<>>
    /\ reported[1].failure = 1

\* C17: in a real run the export of a file starts only from a re-activation
\* that was called after the file's path entry returned true and that
\* returned true itself; a re-activation that returns false is followed by
\* the error alert and a false return without export, the file is then
\* appended to the failed files, and the loop goes on after the interval.
ReactivationMandatory ==
    [][~cfg.DRY_RUN =>
          /\ pc' = "export" =>
                /\ pc = "activated" /\ act.site = "file" /\ act.ret
                /\ stageLog = SubSeq(StageOrder, 1, 4)
                /\ stageRets = <<TRUE, TRUE, TRUE>>
          /\ (pc = "activated" /\ act.site = "file" /\ ~act.ret
                  /\ pc' # "aborted") =>
                /\ pc' = "psf_returned"
                /\ "error_alert" \in lastCall'.fx
                /\ ~Last(results')
                /\ stageLog' = SubSeq(StageOrder, 1, 4)
          /\ (pc = "psf_returned" /\ ~Last(results) /\ pc' # "aborted") =>
                /\ failed_files' = Append(failed_files, target_files[idx])
                /\ pc' = "interval"
          /\ (pc = "interval" /\ pc' # "aborted") =>
                pc' = IF idx < Len(target_files) THEN "reset" ELSE "report"
      ]_vars

\* C17 witness: the re-activation of the first of two files has returned
\* false; the alert was shown and process_single_file returned false
\* without an export
ReactivationFailedWitness ==
    /\ ~cfg.DRY_RUN
    /\ pc = "psf_returned"
    /\ idx = 1
    /\ Len(target_files) = 2
    /\ stageLog = SubSeq(StageOrder, 1, 4)
    /\ stageRets = <<TRUE, TRUE, TRUE, FALSE>>
    /\ "error_alert" \in lastCall.fx
    /\ ~Last(results)

\* C18: in a real run, a pre-loop activation that returns false halts the
\* batch: the error alert is shown and run ends with no file handed to
\* process_single_file, no key event sent and no completion report; nothing
\* happens after the end of run.
FailedActivationHalts ==
    [][/\ (~cfg.DRY_RUN /\ pc = "activated" /\ act.site = "run" /\ ~act.ret
              /\ pc' # "aborted") =>
            /\ pc' = "done"
            /\ "error_alert" \in events'
            /\ processed' = <<>>
            /\ "key" \notin events'
            /\ "report" \notin events'
            /\ reported' = <<>>
       /\ pc # "done"
      ]_vars

\* C18 witness: a real run has ended after the confirmation was accepted and
\* the pre-loop activation failed
FailedActivationWitness ==
    /\ ~cfg.DRY_RUN
    /\ pc = "done"
    /\ "accepted" \in events
    /\ "error_alert" \in events
    /\ target_files # <<>>
    /\ processed = <<>>

\* C19: window activation and key events happen only after a non-empty
\* selection and an accepted confirmation; a run that ends on an empty
\* selection has shown no confirmation prompt, error dialog or report; a
\* run that ends on a declined confirmation has activated nothing, processed
\* no file and shown no report.
SelectionAndConsentFirst ==
    /\ ("activate" \in events \/ "key" \in events \/ processed # <<>>) =>
          /\ target_files # <<>>
          /\ "accepted" \in events
    /\ (pc = "done" /\ "chooser" \in events /\ target_files = <<>>) =>
          /\ events = {"presence_check", "chooser_info", "chooser"}
          /\ reported = <<>>
    /\ (pc = "done" /\ "confirm" \in events /\ "accepted" \notin events) =>
          /\ events = {"presence_check", "chooser_info", "chooser", "confirm"}
          /\ processed = <<>>
          /\ reported = <<>>

\* C19 witness: the operator has declined the confirmation for two files
DeclinedWitness ==
    /\ ~cfg.DRY_RUN
    /\ pc = "done"
    /\ Len(target_files) = 2
    /\ "confirm" \in events
    /\ "accepted" \notin events

\* C20: exactly one inter-file sleep follows every processed file, the last
\* one and the failed ones included; it comes after the file's outcome is
\* recorded and before the reset stage of the next file.
OneIntervalPerFile ==
    /\ pc \in {"reset", "open_dialog", "input_path", "export"} =>
          intervals = idx - 1 /\ Len(results) = idx - 1
    /\ (pc \in {"activate", "activating", "activated"} /\ act.site = "file") =>
          intervals = idx - 1 /\ Len(results) = idx - 1
    /\ pc = "psf_returned" =>
          /\ intervals = idx - 1
          /\ successful_count + Len(failed_files) = idx - 1
    /\ pc = "interval" =>
          /\ intervals = idx - 1
          /\ successful_count + Len(failed_files) = idx
    /\ (pc = "report" \/ reported # <<>>) =>
          intervals = Len(target_files) /\ Len(results) = Len(target_files)

\* C20 witness: the loop over two files is over; the first file failed, the
\* last one succeeded, and two interval sleeps were made
OneIntervalWitness ==
    /\ pc = "report"
    /\ results = <<FALSE, TRUE>>
    /\ intervals = 2

\* C23: with the fail-safe enabled, a key call that raises during a stage of
\* a file stops the run: no stage of a later file is executed after it.
FailSafeStopsRun ==
    (~cfg.DRY_RUN /\ "key_raised" \in events) =>
        \/ stageLog = <<>>
        \/ (Len(stageRets) = Len(stageLog) /\ ~Last(stageRets)
                /\ "key_raised" \in lastCall.fx)

====
